---------------------------- MODULE Spec2Model ----------------------------
(***************************************************************************)
(* The Thought-Query-Decision cycle of soulmaker/behavior_tracker.py.      *)
(*                                                                         *)
(* One session state (a BehaviorState) is threaded through run_cycle, one  *)
(* cycle at a time.  A cycle suspends at the language-model call           *)
(* (provider.text_chat) and at the information-source request              *)
(* (client.get); save_behavior reads and rewrites the log file without     *)
(* suspending.                                                             *)
(*                                                                         *)
(* Encodings.  A Python dict whose keys vary is a set of <<key, value>>    *)
(* pairs with distinct keys.  A Python str that is inspected for keywords  *)
(* is a sequence of tokens ("" is <<>>); `kw in s` is token membership.    *)
(* An Optional value is <<>> for None and <<v>> for v.                     *)
(***************************************************************************)
EXTENDS Naturals, Sequences, FiniteSets, TLC

VARIABLES
    state,       \* the caller's BehaviorState object (mutated in place)
    log_file,    \* content of data/behavior_log.json
    pc,          \* position of run_cycle: ready, thinking, querying, done, failed
    err,         \* the exception a failed cycle raised to its caller
    reply,       \* the raw text the language model returned in this cycle
    api_result,  \* what call_external_api returned in this cycle (Optional)
    source,      \* how the awaited client.get of this cycle ended
    calls,       \* outbound calls made by this cycle
    pre,         \* state and log as they were when this cycle started
    last_done,   \* content and result of the most recent completed query
    saved,       \* records whose save_behavior call completed, in order
    log0,        \* the log file before the first cycle
    torn,        \* a log write has failed after truncating the file
    cycles,      \* cycles started so far
    provider,    \* whether get_using_provider() returned a provider in this cycle
    clean,       \* no cycle has raised so far
    h0,          \* the history before the first cycle
    tasks        \* the run_cycle tasks of two handlers on one event loop

vars == <<state, log_file, pc, err, reply, api_result, source, calls, pre,
          last_done, saved, log0, torn, cycles, provider, clean, h0, tasks>>

---------------------------------------------------------------------------
(* Bounds of the model *)

MaxCycles == 2
MaxInitLog == 1
MaxInitHistory == 1

---------------------------------------------------------------------------
(* Python dicts and Optionals *)

Keys(d) == {p[1] : p \in d}

Has(d, k) == k \in Keys(d)

Get(d, k) == (CHOOSE p \in d : p[1] = k)[2]

GetOr(d, k, dflt) == IF Has(d, k) THEN Get(d, k) ELSE dflt

None == <<>>

Some(v) == <<v>>

OptGet(d, k) == IF Has(d, k) THEN Some(Get(d, k)) ELSE None

\* `kw in content` for a str content
Contains(content, kw) == \E i \in 1..Len(content) : content[i] = kw

---------------------------------------------------------------------------
(* Data classes *)

Fields == {"start", "end", "activity", "cause", "mood", "notes"}

HistoryFields == {"start", "end", "activity"}

\* BehaviorRecord values the language model proposes
Records ==
    { [start |-> "14:30", end |-> "15:00", activity |-> "coding",
       cause |-> "deadline", mood |-> "focused", notes |-> ""],
      [start |-> "15:00", end |-> "16:00", activity |-> "nap",
       cause |-> "tired", mood |-> "lazy", notes |-> "dream"] }

\* HistoryEntry(start=..., end=..., activity=...)
HistoryEntry(s, e, a) == [start |-> s, end |-> e, activity |-> a]

\* Memory() defaults
Memory == [last_query |-> <<>>, last_api_results |-> {}]

\* behavior.__dict__ : the six attributes of a BehaviorRecord as a dict
AsDict(b) == {<<f, b[f]>> : f \in Fields}

\* BehaviorRecord(**d): a TypeError unless d has exactly the six keys
BehaviorRecordOk(d) == Keys(d) = Fields

BehaviorRecord(d) == [f \in Fields |-> Get(d, f)]

---------------------------------------------------------------------------
(* Replies of the language model: resp.completion_text *)

Tianqi == "tianqi"      \* the weather keyword
Bzhan == "Bzhan"        \* the first Bilibili keyword
Bilibili == "Bilibili"  \* the second Bilibili keyword

Contents ==
    { <<>>, <<"Shanghai", Tianqi>>, <<Bzhan, "hot">>,
      <<Bilibili, Tianqi>>, <<"hello">> }

BehaviorDicts ==
    {{}} \cup {AsDict(r) : r \in Records}
         \cup {AsDict(r) \ {<<"notes", r.notes>>} : r \in Records}
         \cup {AsDict(r) \cup {<<"place", "home">>} : r \in Records}

ActionTypes == {"query", "final_decision", "idle", "sleep"}

OptPair(k, o) == IF o = None THEN {} ELSE {<<k, o[1]>>}

Opt(S) == {None} \cup {Some(v) : v \in S}

\* next_action objects: queries with each content, final decisions with each
\* behavior object, the other types, a missing type, and stray extra keys
NextActionDicts ==
    { OptPair("type", Some("query")) \cup OptPair("content", c) : c \in Opt(Contents) }
    \cup { OptPair("type", Some("final_decision")) \cup OptPair("behavior", b) :
              b \in Opt(BehaviorDicts) }
    \cup { OptPair("type", t) : t \in Opt(ActionTypes \ {"query", "final_decision"}) }
    \cup { OptPair("type", t) \cup {<<"content", <<"hello">>>>, <<"behavior", AsDict(r)>>} :
              t \in Opt(ActionTypes), r \in Records }

ReplyDicts ==
    { OptPair("thought", Some("tired")) \cup OptPair("next_action", na) :
        na \in Opt(NextActionDicts) }
    \cup { OptPair("next_action", na) : na \in Opt({{}, {<<"type", "idle">>}}) }

\* kind "text": not JSON; "array": JSON, but not an object; "object": a dict
Replies ==
    { [kind |-> "text", data |-> {}], [kind |-> "array", data |-> {}] }
    \cup { [kind |-> "object", data |-> d] : d \in ReplyDicts }

NoReply == [kind |-> "none", data |-> {}]

---------------------------------------------------------------------------
(* generate_thought, after text_chat has returned `raw` *)

\* next_action.get("type") == "final_decision" and next_action.get("behavior")
WantsRecord(na) ==
    /\ Has(na, "type") /\ Get(na, "type") = "final_decision"
    /\ Has(na, "behavior") /\ Get(na, "behavior") # {}

NextAction(na) ==
    [ type     |-> GetOr(na, "type", "idle"),
      content  |-> OptGet(na, "content"),
      behavior |-> IF WantsRecord(na)
                   THEN Some(BehaviorRecord(Get(na, "behavior")))
                   ELSE None ]

NoOutput == [thought |-> "", next_action |-> NextAction({})]

\* json.loads wrapped in a handler that falls back to an empty object
ParseReplyLenient(raw) ==
    IF raw.kind # "object"
    THEN [ok |-> TRUE, err |-> "none", output |-> NoOutput]
    ELSE LET na == GetOr(raw.data, "next_action", {}) IN
         IF WantsRecord(na) /\ ~BehaviorRecordOk(Get(na, "behavior"))
         THEN [ok |-> FALSE, err |-> "TypeError", output |-> NoOutput]
         ELSE [ok |-> TRUE, err |-> "none",
               output |-> [thought |-> GetOr(raw.data, "thought", ""),
                           next_action |-> NextAction(na)]]

ParseReply(raw) ==
    IF raw.kind = "text"
    THEN [ok |-> FALSE, err |-> "JSONDecodeError", output |-> NoOutput]
    ELSE IF raw.kind # "object"
    THEN [ok |-> FALSE, err |-> "AttributeError", output |-> NoOutput]
    ELSE LET na == GetOr(raw.data, "next_action", {}) IN
         IF WantsRecord(na) /\ ~BehaviorRecordOk(Get(na, "behavior"))
         THEN [ok |-> FALSE, err |-> "TypeError", output |-> NoOutput]
         ELSE [ok |-> TRUE, err |-> "none",
               output |-> [thought |-> GetOr(raw.data, "thought", ""),
                           next_action |-> NextAction(na)]]

\* the ThoughtOutput of the cycle in flight
Output == ParseReply(reply).output

Action == Output.next_action

\* `is not None` in place of truthiness
TruthyNotNone(o) == o # None

\* Python truthiness of an Optional[str]
Truthy(o) == o # None /\ o # Some(<<>>)

\* `if action.content:` without the test of the type
IsQueryAnyType(a) == Truthy(a.content)

\* action.type == "query" and action.content
IsQuery(a) == a.type = "query" /\ Truthy(a.content)

\* action.type == "final_decision" and action.behavior
IsDecision(a) == a.type = "final_decision" /\ a.behavior # None

---------------------------------------------------------------------------
(* call_external_api *)

\* what the information source answers to client.get
Responses ==
    { [kind |-> "json", body |-> {<<"current_condition", "25">>}],
      [kind |-> "json", body |-> {<<"code", "200">>}],
      [kind |-> "text", body |-> {}],
      [kind |-> "timeout", body |-> {}],
      [kind |-> "close_error", body |-> {<<"current_condition", "25">>}] }

\* the awaiting task is cancelled instead of being answered
Cancelled == [kind |-> "cancelled", body |-> {}]

NoResponse == [kind |-> "none", body |-> {}]

\* the branch taken by the keyword tests
Route(content) ==
    IF Contains(content, Tianqi) THEN "weather"
    ELSE IF Contains(content, Bzhan) \/ Contains(content, Bilibili) THEN "bilibili"
    ELSE "none"

\* what the try block raises on `resp` before the result key is assigned:
\* client.get raises on a timeout or a cancellation, resp.json() on a body
\* that is not JSON, and data["current_condition"] on a body without that
\* key
SourceError(resp, route) ==
    IF resp.kind = "cancelled" THEN "CancelledError"
    ELSE IF resp.kind = "timeout" THEN "ReadTimeout"
    ELSE IF resp.kind = "text" THEN "JSONDecodeError"
    ELSE IF route = "weather" /\ ~Has(resp.body, "current_condition") THEN "KeyError"
    ELSE "none"

\* what leaving `async with httpx.AsyncClient()` raises when closing the
\* client fails, after the result key has been assigned inside the block
CloseError(resp) == IF resp.kind = "close_error" THEN "CloseError" ELSE "none"

\* `except httpx.HTTPError`: only transport errors are caught
IsExceptionNarrow(exc) == exc = "ReadTimeout"

\* `except Exception`: CancelledError derives from BaseException
IsException(exc) == exc # "CancelledError"

\* call_external_api(content) when the request, if one is made, ends with
\* `resp`: the dict returned, or the exception that leaves the function
CallExternalApi(content, resp) ==
    LET route == Route(content)
        exc == SourceError(resp, route)
        keyed == IF route = "weather"
                 THEN {<<"weather", <<Get(resp.body, "current_condition"), "degC">>>>}
                 ELSE {<<"bilibili", resp.body>>}
    IN  IF route = "none"
        THEN [raised |-> "none", result |-> {<<"info", "no_api">>}]
        ELSE IF exc # "none"
        THEN IF IsException(exc)
             THEN [raised |-> "none", result |-> {<<"error", exc>>}]
             ELSE [raised |-> exc, result |-> {}]
        ELSE IF CloseError(resp) = "none"
        THEN [raised |-> "none", result |-> keyed]
        ELSE IF IsException(CloseError(resp))
        THEN [raised |-> "none",
              result |-> keyed \cup {<<"error", CloseError(resp)>>}]
        ELSE [raised |-> CloseError(resp), result |-> {}]

---------------------------------------------------------------------------
(* save_behavior *)

\* the file is absent, holds a JSON array, holds text that is not JSON
\* (corrupt), holds JSON that is not an array (object), or holds bytes
\* that are not UTF-8 (undecodable)
File(kind, recs) == [kind |-> kind, recs |-> recs]

Absent == File("absent", <<>>)

\* json.dumps(records, ensure_ascii=False, indent=2)
JsonDumps(records) == File("array", records)

\* how write_text ends: the text is written; open() fails and the file is
\* untouched; the write fails after open() truncated the file
WriteOutcomes == {"ok", "fail_open", "fail_partial"}

\* the exception raised before the write, if any
ReadError(file) ==
    IF file.kind = "undecodable" THEN "UnicodeDecodeError"
    ELSE IF file.kind = "object" THEN "AttributeError"
    ELSE "none"

\* records after the read: [] when the file is absent or JSONDecodeError
ReadRecords(file) == IF file.kind = "array" THEN file.recs ELSE <<>>

\* save_behavior that does not read the existing records back
SaveBehaviorTruncating(file, behavior, w) ==
    IF ReadError(file) # "none"
    THEN [file |-> file, err |-> ReadError(file), wrote |-> FALSE]
    ELSE IF w = "fail_open"
    THEN [file |-> file, err |-> "OSError", wrote |-> TRUE]
    ELSE IF w = "fail_partial"
    THEN [file |-> File("corrupt", <<>>), err |-> "OSError", wrote |-> TRUE]
    ELSE [file |-> JsonDumps(<<AsDict(behavior)>>), err |-> "none", wrote |-> TRUE]

SaveBehavior(file, behavior, w) ==
    IF ReadError(file) # "none"
    THEN [file |-> file, err |-> ReadError(file), wrote |-> FALSE]
    ELSE IF w = "fail_open"
    THEN [file |-> file, err |-> "OSError", wrote |-> TRUE]
    ELSE IF w = "fail_partial"
    THEN [file |-> File("corrupt", <<>>), err |-> "OSError", wrote |-> TRUE]
    ELSE [file |-> JsonDumps(Append(ReadRecords(file), AsDict(behavior))),
          err |-> "none", wrote |-> TRUE]

---------------------------------------------------------------------------
(* parse_next_action and accumulate_context: the writes to the state *)

\* state.memory.last_query = action.content
SetLastQuery(st, content) == [st EXCEPT !.memory.last_query = content]

\* state.memory.last_api_results.update(api_result)
SetApiResultsMerge(st, result) ==
    [st EXCEPT !.memory.last_api_results =
        {p \in @ : p[1] \notin Keys(result)} \cup result]

\* state.memory.last_api_results = api_result
SetApiResults(st, result) == [st EXCEPT !.memory.last_api_results = result]

\* state.history.insert(0, HistoryEntry(...))
AppendHistoryFront(st, b) ==
    [st EXCEPT !.history = <<HistoryEntry(b.start, b.end, b.activity)>> \o @]

\* state.history = [HistoryEntry(...)]
AppendHistoryReset(st, b) ==
    [st EXCEPT !.history = <<HistoryEntry(b.start, b.end, b.activity)>>]

\* state.history.append(HistoryEntry(start=b.end, end=b.start, ...))
AppendHistorySwapped(st, b) ==
    [st EXCEPT !.history = Append(@, HistoryEntry(b.end, b.start, b.activity))]

\* state.history.append(HistoryEntry(start=..., end=..., activity=...))
AppendHistory(st, b) ==
    [st EXCEPT !.history = Append(@, HistoryEntry(b.start, b.end, b.activity))]

\* state.memory.last_api_results = {}
AccumulateContextReset(st) == [st EXCEPT !.memory.last_api_results = {}]

\* accumulate_context also moving the clock: state.current_time = "15:00"
AccumulateContextAdvance(st) == [st EXCEPT !.current_time = "15:00"]

\* state.memory.last_api_results = getattr(state.memory, "last_api_results", {})
AccumulateContext(st) ==
    [st EXCEPT !.memory.last_api_results = st.memory.last_api_results]

---------------------------------------------------------------------------
(* Initial states *)

SeqsUpTo(S, n) == UNION {[1..k -> S] : k \in 0..n}

InitEntries == {HistoryEntry("13:00", "14:30", "nap")}

InitFiles ==
    {Absent, File("corrupt", <<>>), File("object", <<>>), File("undecodable", <<>>)}
    \cup {File("array", rs) : rs \in SeqsUpTo({AsDict(r) : r \in Records}, MaxInitLog)}

NoCalls == [llm |-> 0, gateway |-> 0, http |-> 0, writes |-> 0]

\* the two `track` handlers that share one tracker and its log file
TaskIds == {"a", "b"}

\* a handler that has built its BehaviorState and not yet called run_cycle
NewTask(st, file) ==
    [pc |-> "ready", state |-> st, reply |-> NoReply, err |-> "none", seen |-> file]

Init ==
    /\ state \in { [current_time |-> "14:30", history |-> h, memory |-> Memory] :
                     h \in SeqsUpTo(InitEntries, MaxInitHistory) }
    /\ log_file \in InitFiles
    /\ pc = "ready"
    /\ err = "none"
    /\ reply = NoReply
    /\ api_result = None
    /\ source = NoResponse
    /\ calls = NoCalls
    /\ pre = [state |-> state, log |-> log_file]
    /\ last_done = [query |-> state.memory.last_query,
                    results |-> state.memory.last_api_results]
    /\ saved = <<>>
    /\ log0 = log_file
    /\ torn = FALSE
    /\ cycles = 0
    /\ provider = TRUE
    /\ clean = TRUE
    /\ h0 = state.history
    /\ tasks = [t \in TaskIds |-> NewTask(state, log_file)]

---------------------------------------------------------------------------
(* run_cycle *)

Quiescent == pc \in {"ready", "done", "failed"}

\* a missing provider is replaced by a default one
ProviderCheckDefault(p) == "none"

\* `if provider is None: raise RuntimeError("No LLM provider configured")`
ProviderCheck(p) == IF p THEN "none" ELSE "RuntimeError"

\* what every step of a cycle leaves alone, and whether a cycle has raised
Bookkeeping ==
    /\ clean' = (clean /\ pc' # "failed")
    /\ UNCHANGED <<h0, tasks>>

\* run_cycle is called; generate_thought builds the prompt and awaits
\* provider.text_chat, or raises when no provider is configured
StartCycle ==
    /\ Quiescent
    /\ cycles < MaxCycles
    /\ cycles' = cycles + 1
    /\ pre' = [state |-> state, log |-> log_file]
    /\ reply' = NoReply
    /\ api_result' = None
    /\ source' = NoResponse
    /\ \E p \in BOOLEAN :
         /\ provider' = p
         /\ IF ProviderCheck(p) = "none"
            THEN pc' = "thinking" /\ err' = "none"
                 /\ calls' = [NoCalls EXCEPT !.llm = 1]
            ELSE pc' = "failed" /\ err' = ProviderCheck(p) /\ calls' = NoCalls
    /\ UNCHANGED <<state, log_file, last_done, saved, log0, torn>>
    /\ Bookkeeping

\* a failed text_chat is called again instead of raising
ModelCallRetried ==
    /\ pc = "thinking"
    /\ calls.llm < 2
    /\ calls' = [calls EXCEPT !.llm = @ + 1]
    /\ UNCHANGED <<state, log_file, pc, err, reply, api_result, source, pre,
                   last_done, saved, log0, torn, cycles, provider>>
    /\ Bookkeeping

\* a handler around text_chat that records the failure in the memory
ModelCallFailsRecording ==
    /\ pc = "thinking"
    /\ pc' = "failed"
    /\ err' \in {"ProviderError", "CancelledError"}
    /\ state' = [state EXCEPT !.memory.last_api_results = {<<"error", err'>>}]
    /\ UNCHANGED <<log_file, reply, api_result, source, calls, pre,
                   last_done, saved, log0, torn, cycles, provider>>
    /\ Bookkeeping

\* text_chat raises, or the task is cancelled while awaiting it
ModelCallFails ==
    /\ pc = "thinking"
    /\ pc' = "failed"
    /\ err' \in {"ProviderError", "CancelledError"}
    /\ UNCHANGED <<state, log_file, reply, api_result, source, calls, pre,
                   last_done, saved, log0, torn, cycles, provider>>
    /\ Bookkeeping

\* text_chat returns text that generate_thought cannot turn into a
\* ThoughtOutput
ReplyMalformed ==
    /\ pc = "thinking"
    /\ \E raw \in Replies :
         /\ ~ParseReply(raw).ok
         /\ reply' = raw
         /\ err' = ParseReply(raw).err
    /\ pc' = "failed"
    /\ UNCHANGED <<state, log_file, api_result, source, calls, pre,
                   last_done, saved, log0, torn, cycles, provider>>
    /\ Bookkeeping

\* the action is a query with content: last_query is set and
\* call_external_api is awaited; with no keyword it returns at once
ReplyQuery ==
    /\ pc = "thinking"
    /\ \E raw \in Replies :
         LET a == ParseReply(raw).output.next_action
             content == a.content[1]
             asked == SetLastQuery(state, content)
             result == CallExternalApi(content, NoResponse).result
         IN  /\ ParseReply(raw).ok
             /\ IsQuery(a)
             /\ reply' = raw
             /\ IF Route(content) = "none"
                THEN /\ state' = AccumulateContext(SetApiResults(asked, result))
                     /\ api_result' = Some(result)
                     /\ last_done' = [query |-> content, results |-> result]
                     /\ calls' = [calls EXCEPT !.gateway = @ + 1]
                     /\ pc' = "done"
                ELSE /\ state' = asked
                     /\ calls' = [calls EXCEPT !.gateway = @ + 1, !.http = @ + 1]
                     /\ pc' = "querying"
                     /\ UNCHANGED <<api_result, last_done>>
    /\ UNCHANGED <<log_file, err, source, pre, saved, log0, torn, cycles, provider>>
    /\ Bookkeeping

\* the awaited client.get ends with `resp`: call_external_api returns its
\* dict and parse_next_action stores it, or the exception propagates
Lookup(resp) ==
    LET content == Action.content[1]
        r == CallExternalApi(content, resp)
    IN  /\ pc = "querying"
        /\ source' = resp
        /\ IF r.raised = "none"
           THEN /\ state' = AccumulateContext(SetApiResults(state, r.result))
                /\ api_result' = Some(r.result)
                /\ last_done' = [query |-> content, results |-> r.result]
                /\ pc' = "done"
                /\ UNCHANGED err
           ELSE /\ pc' = "failed"
                /\ err' = r.raised
                /\ UNCHANGED <<state, api_result, last_done>>
        /\ UNCHANGED <<log_file, reply, calls, pre, saved, log0, torn, cycles, provider>>
        /\ Bookkeeping

\* the information source answers, or the request fails
LookupAnswered == \E resp \in Responses : Lookup(resp)

\* the task is cancelled while awaiting client.get
LookupCancelled == Lookup(Cancelled)

\* the action is a final decision with a record: the history entry is
\* appended, then save_behavior reads and rewrites the log
ReplyDecision ==
    /\ pc = "thinking"
    /\ \E raw \in Replies, w \in WriteOutcomes :
         LET a == ParseReply(raw).output.next_action
             b == a.behavior[1]
             s == SaveBehavior(log_file, b, w)
         IN  /\ ParseReply(raw).ok
             /\ IsDecision(a)
             /\ reply' = raw
             /\ log_file' = s.file
             /\ calls' = [calls EXCEPT !.writes = IF s.wrote THEN @ + 1 ELSE @]
             /\ torn' = (torn \/ (s.file.kind = "corrupt" /\ s.err # "none"))
             /\ IF s.err = "none"
                THEN /\ state' = AccumulateContext(AppendHistory(state, b))
                     /\ saved' = Append(saved, b)
                     /\ pc' = "done"
                     /\ err' = "none"
                ELSE /\ state' = AppendHistory(state, b)
                     /\ pc' = "failed"
                     /\ err' = s.err
                     /\ UNCHANGED saved
    /\ UNCHANGED <<api_result, source, pre, last_done, log0, cycles, provider>>
    /\ Bookkeeping

\* any other action: parse_next_action changes nothing
ReplyNoop ==
    /\ pc = "thinking"
    /\ \E raw \in Replies :
         LET a == ParseReply(raw).output.next_action
         IN  /\ ParseReply(raw).ok
             /\ ~IsQuery(a)
             /\ ~IsDecision(a)
             /\ reply' = raw
    /\ state' = AccumulateContext(state)
    /\ pc' = "done"
    /\ UNCHANGED <<log_file, err, api_result, source, calls, pre,
                   last_done, saved, log0, torn, cycles, provider>>
    /\ Bookkeeping

Next ==
    \/ StartCycle
    \/ ModelCallFails
    \/ ReplyMalformed
    \/ ReplyQuery
    \/ LookupAnswered
    \/ LookupCancelled
    \/ ReplyDecision
    \/ ReplyNoop

Spec == Init /\ [][Next]_vars

\* the awaited text_chat ends: it raises, or returns a reply
ModelResponds ==
    ModelCallFails \/ ReplyMalformed \/ ReplyQuery \/ ReplyDecision \/ ReplyNoop

\* the awaited client.get ends (it is called with timeout=10)
LookupEnds == LookupAnswered \/ LookupCancelled

\* every outbound call eventually ends
FairSpec == Spec /\ WF_vars(ModelResponds) /\ WF_vars(LookupEnds)

---------------------------------------------------------------------------
(* Two run_cycle coroutines of one tracker on one event loop: a step runs
   one coroutine from one await that suspends to the next *)

\* replies of the language model to the two handlers
ConcReplies ==
    { [kind |-> "text", data |-> {}],
      [kind |-> "object", data |-> {<<"thought", "tired">>,
                                    <<"next_action", {<<"type", "idle">>}>>}],
      [kind |-> "object",
       data |-> {<<"thought", "tired">>,
                 <<"next_action", {<<"type", "query">>,
                                   <<"content", <<"Shanghai", Tianqi>>>>}>>}] }
    \cup { [kind |-> "object",
            data |-> {<<"thought", "tired">>,
                      <<"next_action", {<<"type", "final_decision">>,
                                        <<"behavior", AsDict(r)>>}>>}] :
             r \in Records }

\* the log content save_behavior works on, read at an earlier suspend point
LogReadStale(cur, stale) == stale

\* self.log_path.read_text(): a synchronous read, in the same step as the
\* write_text that follows it
LogRead(cur, stale) == cur

\* what a step of a handler leaves alone
ConcFrame ==
    UNCHANGED <<state, pc, err, reply, api_result, source, calls, pre,
                last_done, log0, cycles, provider, clean, h0>>

\* a handler calls run_cycle, which awaits text_chat or raises
ConcStart ==
    /\ \E t \in TaskIds, p \in BOOLEAN :
         /\ tasks[t].pc = "ready"
         /\ tasks' = [tasks EXCEPT ![t] =
                IF ProviderCheck(p) = "none"
                THEN [@ EXCEPT !.pc = "thinking", !.seen = log_file]
                ELSE [@ EXCEPT !.pc = "failed", !.err = ProviderCheck(p)]]
    /\ UNCHANGED <<log_file, saved, torn>>
    /\ ConcFrame

\* text_chat raises, or the task is cancelled while awaiting it
ConcModelFails ==
    /\ \E t \in TaskIds, e \in {"ProviderError", "CancelledError"} :
         /\ tasks[t].pc = "thinking"
         /\ tasks' = [tasks EXCEPT ![t] = [@ EXCEPT !.pc = "failed", !.err = e]]
    /\ UNCHANGED <<log_file, saved, torn>>
    /\ ConcFrame

\* the reply cannot be turned into a ThoughtOutput
ConcReplyMalformed ==
    /\ \E t \in TaskIds, raw \in ConcReplies :
         /\ tasks[t].pc = "thinking"
         /\ ~ParseReply(raw).ok
         /\ tasks' = [tasks EXCEPT ![t] =
                [@ EXCEPT !.pc = "failed", !.reply = raw,
                          !.err = ParseReply(raw).err]]
    /\ UNCHANGED <<log_file, saved, torn>>
    /\ ConcFrame

\* a query: last_query is set and the handler suspends at client.get
ConcReplyQuery ==
    /\ \E t \in TaskIds, raw \in ConcReplies :
         LET a == ParseReply(raw).output.next_action IN
         /\ tasks[t].pc = "thinking"
         /\ ParseReply(raw).ok
         /\ IsQuery(a)
         /\ Route(a.content[1]) # "none"
         /\ tasks' = [tasks EXCEPT ![t] =
                [@ EXCEPT !.pc = "querying", !.reply = raw,
                          !.state = SetLastQuery(@, a.content[1])]]
    /\ UNCHANGED <<log_file, saved, torn>>
    /\ ConcFrame

\* the awaited client.get of a handler ends
ConcLookup ==
    /\ \E t \in TaskIds, resp \in Responses \cup {Cancelled} :
         LET a == ParseReply(tasks[t].reply).output.next_action
             r == CallExternalApi(a.content[1], resp)
         IN  /\ tasks[t].pc = "querying"
             /\ tasks' = [tasks EXCEPT ![t] =
                    IF r.raised = "none"
                    THEN [@ EXCEPT !.pc = "done",
                                   !.state = AccumulateContext(SetApiResults(@, r.result))]
                    ELSE [@ EXCEPT !.pc = "failed", !.err = r.raised]]
    /\ UNCHANGED <<log_file, saved, torn>>
    /\ ConcFrame

\* a final decision: the entry is appended and save_behavior, which has no
\* await in its body, reads and rewrites the log before any other handler
\* runs
ConcReplyDecision ==
    /\ \E t \in TaskIds, raw \in ConcReplies, w \in WriteOutcomes :
         LET a == ParseReply(raw).output.next_action
             b == a.behavior[1]
             s == SaveBehavior(LogRead(log_file, tasks[t].seen), b, w)
         IN  /\ tasks[t].pc = "thinking"
             /\ ParseReply(raw).ok
             /\ IsDecision(a)
             /\ log_file' = s.file
             /\ torn' = (torn \/ (s.file.kind = "corrupt" /\ s.err # "none"))
             /\ IF s.err = "none"
                THEN /\ tasks' = [tasks EXCEPT ![t] =
                            [@ EXCEPT !.pc = "done", !.reply = raw,
                                      !.state = AccumulateContext(AppendHistory(@, b))]]
                     /\ saved' = Append(saved, b)
                ELSE /\ tasks' = [tasks EXCEPT ![t] =
                            [@ EXCEPT !.pc = "failed", !.reply = raw, !.err = s.err,
                                      !.state = AppendHistory(@, b)]]
                     /\ UNCHANGED saved
    /\ ConcFrame

\* any other action: nothing is changed
ConcReplyNoop ==
    /\ \E t \in TaskIds, raw \in ConcReplies :
         LET a == ParseReply(raw).output.next_action IN
         /\ tasks[t].pc = "thinking"
         /\ ParseReply(raw).ok
         /\ ~IsQuery(a)
         /\ ~IsDecision(a)
         /\ tasks' = [tasks EXCEPT ![t] =
                [@ EXCEPT !.pc = "done", !.reply = raw,
                          !.state = AccumulateContext(@)]]
    /\ UNCHANGED <<log_file, saved, torn>>
    /\ ConcFrame

ConcNext ==
    \/ ConcStart
    \/ ConcModelFails
    \/ ConcReplyMalformed
    \/ ConcReplyQuery
    \/ ConcLookup
    \/ ConcReplyDecision
    \/ ConcReplyNoop

SpecConc == Init /\ [][ConcNext]_vars

---------------------------------------------------------------------------
(* The reply of the cycle in flight, read off the raw text *)

ReplyAction ==
    IF reply.kind = "object" /\ Has(reply.data, "next_action")
    THEN Get(reply.data, "next_action")
    ELSE {}

ReplyType == GetOr(ReplyAction, "type", "absent")

ReplyBehavior == GetOr(ReplyAction, "behavior", {})

ReplyContent == GetOr(ReplyAction, "content", <<>>)

\* a final_decision whose behavior object carries all six fields
ReplyIsValidDecision ==
    ReplyType = "final_decision" /\ Fields \subseteq Keys(ReplyBehavior)

\* a final_decision with a behavior object that is not empty
ReplyIsDecision == ReplyType = "final_decision" /\ ReplyBehavior # {}

\* a query with non-empty content
ReplyIsQuery == ReplyType = "query" /\ ReplyContent # <<>>

ReplyIsIdle == ReplyType = "idle"

IsPrefix(s, t) == Len(s) <= Len(t) /\ SubSeq(t, 1, Len(s)) = s

Returned == pc = "done"

Raised == pc = "failed"

---------------------------------------------------------------------------
(* Claims *)

\* C1: when run_cycle returns on a final_decision reply whose behavior
\* object carries all six fields, the history is the history of before
\* followed by exactly one entry, whose start, end and activity are those
\* of the record in the reply.
C1_FinalDecisionAppendsOneEntry ==
    (Returned /\ ReplyIsValidDecision) =>
        LET old == pre.state.history
            new == state.history
        IN  /\ Len(new) = Len(old) + 1
            /\ SubSeq(new, 1, Len(old)) = old
            /\ new[Len(new)].start = Get(ReplyBehavior, "start")
            /\ new[Len(new)].end = Get(ReplyBehavior, "end")
            /\ new[Len(new)].activity = Get(ReplyBehavior, "activity")
            /\ DOMAIN new[Len(new)] = HistoryFields

C1_Witness ==
    /\ Returned /\ ReplyIsValidDecision
    /\ Len(pre.state.history) >= 1
    /\ state.history[Len(state.history)] # pre.state.history[1]

\* C2: when run_cycle returns on a query reply with non-empty content c,
\* last_query is c and last_api_results is exactly the dict that
\* call_external_api returned: no key of the previous results survives
\* unless the gateway returned it again.
C2_QueryReplacesResults ==
    (Returned /\ ReplyIsQuery) =>
        /\ state.memory.last_query = ReplyContent
        /\ api_result # None
        /\ state.memory.last_api_results = api_result[1]
        /\ \A k \in Keys(pre.state.memory.last_api_results) :
             Has(state.memory.last_api_results, k) => Has(api_result[1], k)

C2_Witness ==
    /\ Returned /\ ReplyIsQuery
    /\ pre.state.memory.last_api_results # {}
    /\ Keys(pre.state.memory.last_api_results) \cap Keys(api_result[1]) = {}
    /\ pre.state.memory.last_query # ReplyContent

\* C3: on a reply whose next_action type is idle, run_cycle returns and the
\* state equals the state of before (current_time, history, last_query,
\* last_api_results); the log is not written and the gateway is not called.
C3_IdleChangesNothing ==
    ReplyIsIdle =>
        /\ Returned
        /\ state = pre.state
        /\ log_file = pre.log
        /\ calls.gateway = 0 /\ calls.http = 0 /\ calls.writes = 0

C3_Witness ==
    /\ Returned /\ ReplyIsIdle
    /\ Has(ReplyAction, "content") /\ Has(ReplyAction, "behavior")
    /\ state.history # <<>>
    /\ state.memory.last_api_results # {}

\* C4: when the reply is not valid JSON, run_cycle raises to its caller
\* and the caller's state object and the log file are as before the cycle.
C4_NonJsonReplyRaisesUnmodified ==
    reply.kind = "text" =>
        /\ Raised
        /\ err = "JSONDecodeError"
        /\ state = pre.state
        /\ log_file = pre.log

C4_Witness ==
    /\ Raised /\ reply.kind = "text"
    /\ state.history # <<>>
    /\ state.memory.last_query # <<>>

\* C5: when the log write fails during a final_decision cycle, run_cycle
\* raises and the history is the same as before the cycle.
C5_FailedWriteLeavesHistory ==
    (Raised /\ ReplyIsValidDecision /\ calls.writes > 0) =>
        /\ err = "OSError"
        /\ state.history = pre.state.history

\* C6: when the lookup of a query cycle is cancelled, call_external_api
\* resolves to a dict with an error key and last_api_results holds it, so
\* that last_query and last_api_results belong to the same query.
C6_CancelledLookupResolves ==
    (source.kind = "cancelled") =>
        /\ api_result # None
        /\ Has(api_result[1], "error")
        /\ state.memory.last_api_results = api_result[1]
        /\ state.memory.last_query = ReplyContent

\* C7: starting from an absent log or a valid log of K records, after N
\* save_behavior calls that completed (and no write torn in between) the
\* log is an array of K + N objects: the K earlier ones unchanged, then the
\* six fields of each saved record, in the order of the calls.
C7_SequentialAppends ==
    (log0.kind \in {"absent", "array"} /\ ~torn) =>
        LET K == Len(log0.recs)
            N == Len(saved)
        IN  IF N = 0 THEN log_file = log0
            ELSE /\ log_file.kind = "array"
                 /\ Len(log_file.recs) = K + N
                 /\ \A i \in 1..K : log_file.recs[i] = log0.recs[i]
                 /\ \A i \in 1..N :
                      /\ Keys(log_file.recs[K + i]) = Fields
                      /\ \A f \in Fields : Get(log_file.recs[K + i], f) = saved[i][f]

C7_Witness ==
    /\ log0.kind = "array" /\ Len(log0.recs) = 1 /\ ~torn
    /\ Len(saved) = 2 /\ saved[1] # saved[2]
    /\ Len(log_file.recs) = 3

\* C8: at every step the previous history is a prefix of the current
\* history, and the history grows only in a step taken on a
\* final_decision reply that carries a record.
C8_HistoryOnlyGrows ==
    [][ /\ IsPrefix(state.history, state.history')
        /\ (state.history' # state.history => ReplyIsDecision') ]_vars

C8_Witness ==
    /\ Len(pre.state.history) >= 1
    /\ Len(state.history) = Len(pre.state.history) + 1
    /\ cycles = 2

\* C9: whenever no cycle is in flight, last_query and last_api_results are
\* the content and the returned dict of the most recent completed query
\* cycle (or the initial pair when none has completed).
C9_MemoryIsLastCompletedQuery ==
    Quiescent =>
        /\ state.memory.last_query = last_done.query
        /\ state.memory.last_api_results = last_done.results

\* the request of this cycle timed out, or its body is not JSON, or the
\* weather body lacks the field that is read from it
SourceFailed ==
    \/ source.kind \in {"timeout", "text"}
    \/ /\ source.kind = "json"
       /\ Contains(ReplyContent, Tianqi)
       /\ ~Has(source.body, "current_condition")

\* C10: when the information source fails (the request times out, the body
\* is not JSON, or the weather body lacks the field read from it), run_cycle
\* returns, call_external_api has returned a dict with an error key, and
\* the state holds the query content and that dict.
C10_SourceFailureIsData ==
    SourceFailed =>
        /\ Returned
        /\ err = "none"
        /\ api_result # None
        /\ Has(api_result[1], "error")
        /\ state.memory.last_query = ReplyContent
        /\ state.memory.last_api_results = api_result[1]

C10_Witness ==
    /\ Returned
    /\ source.kind = "json" /\ SourceFailed
    /\ Get(state.memory.last_api_results, "error") = "KeyError"

\* C11: when save_behavior runs on a log whose content is not a JSON array
\* (not valid JSON, or valid JSON of another shape) and the write itself
\* does not fail, the cycle returns without error and the log is exactly
\* the one-element array holding the new record.
C11_CorruptLogIsDiscarded ==
    ( /\ pc \in {"done", "failed"}
      /\ ReplyType = "final_decision" /\ Keys(ReplyBehavior) = Fields
      /\ pre.log.kind \in {"corrupt", "object"}
      /\ err # "OSError" ) =>
        /\ Returned
        /\ err = "none"
        /\ log_file = JsonDumps(<<ReplyBehavior>>)

\* the reply is a JSON object without the expected shape
ReplyLacksShape ==
    /\ reply.kind = "object"
    /\ \/ ~Has(reply.data, "next_action")
       \/ ~Has(reply.data, "thought")
       \/ ~Has(ReplyAction, "type")
       \/ ReplyType \notin {"query", "final_decision", "idle"}

\* C14: a reply that is a JSON object without the expected shape (no
\* next_action, no thought, no type, or an unknown type) makes run_cycle
\* raise to its caller; it never completes the cycle.
C14_ShapelessReplyRaises ==
    ReplyLacksShape => Raised

\* C15: a final_decision reply whose behavior object lacks at least one of
\* the six fields (the empty object included) makes run_cycle raise, and
\* neither the history nor the log gains an entry.
C15_IncompleteBehaviorRaises ==
    ( /\ ReplyType = "final_decision"
      /\ Has(ReplyAction, "behavior")
      /\ ~(Fields \subseteq Keys(ReplyBehavior)) ) =>
        /\ Raised
        /\ state.history = pre.state.history
        /\ log_file = pre.log

\* C16: on a query reply whose content is empty or absent, or a
\* final_decision reply with no record, run_cycle returns with history,
\* last_query and last_api_results as before, without calling the gateway
\* and without writing the log; repeating it therefore changes nothing
\* either.
C16_EmptyActionChangesNothing ==
    ( \/ ReplyType = "query" /\ ReplyContent = <<>>
      \/ ReplyType = "final_decision" /\ ReplyBehavior = {} ) =>
        /\ Returned
        /\ state = pre.state
        /\ log_file = pre.log
        /\ calls.gateway = 0 /\ calls.http = 0 /\ calls.writes = 0

C16_Witness ==
    /\ Returned
    /\ ReplyType = "query" /\ Has(ReplyAction, "content") /\ ReplyContent = <<>>
    /\ state.history # <<>>
    /\ state.memory.last_query # <<>>
    /\ state.memory.last_api_results # {}

\* C18: when the language-model call is cancelled while awaited, run_cycle
\* raises with the state (history, last_query, last_api_results) and the
\* log as they were before the cycle, and no gateway call or log write
\* made.
C18_CancelledThoughtLeavesState ==
    (Raised /\ err = "CancelledError" /\ reply = NoReply) =>
        /\ state = pre.state
        /\ log_file = pre.log
        /\ calls.gateway = 0 /\ calls.http = 0 /\ calls.writes = 0

C18_Witness ==
    /\ Raised /\ err = "CancelledError" /\ reply = NoReply
    /\ cycles = 2
    /\ state.memory.last_query # <<>>
    /\ state.memory.last_api_results # {}

\* C12: a cycle started with no provider configured raises RuntimeError
\* before any outbound call: text_chat is not called, no reply is received,
\* no gateway lookup and no log write happen, and the state and the log
\* are as before the cycle.
C12_NoProviderRaisesFirst ==
    ~provider =>
        /\ Raised
        /\ err = "RuntimeError"
        /\ calls = NoCalls
        /\ reply = NoReply
        /\ state = pre.state
        /\ log_file = pre.log

C12_Witness ==
    /\ ~provider /\ Raised
    /\ cycles = 2
    /\ state.memory.last_query # <<>>
    /\ log_file.kind = "array"

\* C19: whenever call_external_api was called and the cycle has ended, it
\* returned a dict with exactly one key among weather, bilibili, info and
\* error: {info: no_api} with no request for a content without keyword, the
\* weather source for a content with the weather keyword even next to a
\* Bilibili keyword, and error alone when the source failed.
C19_ResultHasOneKey ==
    (ReplyIsQuery /\ pc \in {"done", "failed"}) =>
        /\ api_result # None
        /\ Cardinality(Keys(api_result[1])) = 1
        /\ Keys(api_result[1]) \subseteq {"weather", "bilibili", "info", "error"}
        /\ Route(ReplyContent) = "none" =>
             (api_result[1] = {<<"info", "no_api">>} /\ calls.http = 0)
        /\ Contains(ReplyContent, Tianqi) => ~Has(api_result[1], "bilibili")
        /\ Has(api_result[1], "error") => Keys(api_result[1]) = {"error"}

\* the entries the cycles have added to the history
Added == SubSeq(state.history, Len(h0) + 1, Len(state.history))

\* C20: from history H0 and an absent log, as long as no cycle has raised,
\* the log has as many records as the history has entries beyond H0, and
\* the i-th record has the start, end and activity of the i-th entry added.
C20_LogMirrorsHistory ==
    (log0 = Absent /\ clean) =>
        /\ IsPrefix(h0, state.history)
        /\ Len(log_file.recs) = Len(Added)
        /\ \A i \in 1..Len(Added) :
             /\ Keys(log_file.recs[i]) = Fields
             /\ \A f \in HistoryFields : Get(log_file.recs[i], f) = Added[i][f]

C20_Witness ==
    /\ log0 = Absent /\ clean /\ Quiescent
    /\ h0 # <<>>
    /\ Len(Added) = 2 /\ Added[1] # Added[2]
    /\ Len(log_file.recs) = 2

InFlight == pc \in {"thinking", "querying"}

\* C17 as amended: a cycle calls the language model once when a provider is
\* configured and not at all otherwise, never again in the same cycle; the
\* gateway is called only on a query reply and the log written only on a
\* final_decision reply, at most one of the two and at most once; a cycle
\* that returned had its model call and no error; and provided every
\* outbound call eventually ends, a cycle in flight eventually returns the
\* state or raises to its caller.
C17_CycleRunsOnce ==
    /\ [] /\ calls.llm <= 1
          /\ (cycles > 0 => (calls.llm = 1 <=> provider))
          /\ calls.gateway + calls.writes <= 1
          /\ (calls.gateway = 1 => ReplyIsQuery)
          /\ (calls.writes = 1 => ReplyIsDecision)
          /\ (Returned => (calls.llm = 1 /\ err = "none"))
    /\ InFlight ~> Quiescent

C17_Witness ==
    /\ Returned /\ cycles = 2
    /\ calls.llm = 1 /\ calls.gateway = 1 /\ calls.writes = 0
    /\ Len(saved) = 1

\* C17 as stated: every cycle that has ended called the language model
\* exactly once, at most one of gateway lookup and log append happened, and
\* provided every outbound call eventually ends a cycle in flight
\* eventually reaches Done and returns the state.
C17_EveryCycleReachesDone ==
    /\ []((cycles > 0 /\ Quiescent) => calls.llm = 1)
    /\ [](calls.gateway + calls.writes <= 1)
    /\ InFlight ~> Returned

\* the handler's cycle returned after committing a final decision
Committed(t) ==
    /\ tasks[t].pc = "done"
    /\ IsDecision(ParseReply(tasks[t].reply).output.next_action)

C21_CycleFrame ==
    /\ state.current_time = pre.state.current_time
    /\ ReplyType = "query" =>
         /\ state.history = pre.state.history
         /\ log_file = pre.log
         /\ calls.writes = 0
    /\ ReplyType = "final_decision" =>
         /\ state.memory = pre.state.memory
         /\ calls.gateway = 0 /\ calls.http = 0

C21_Witness ==
    /\ Returned /\ cycles = 2
    /\ ReplyIsDecision /\ Has(ReplyAction, "content")
    /\ Len(state.history) = Len(pre.state.history) + 1
    /\ state.memory.last_query # <<>>
    /\ state.memory.last_api_results # {}

===========================================================================
